---- MODULE Spec2Model ----
(***************************************************************************)
(* A model of the watson_decision_optimization sample:                     *)
(*   sample/utils.py          settings.json / auth.json access, publish    *)
(*                            and deploy                                   *)
(*   sample/model_execute.py  job creation and the polling loop            *)
(*   sample/model.py          the production-planning LP and its run       *)
(* Each program is a specification of its own over the shared variables.   *)
(***************************************************************************)
EXTENDS Integers, Sequences, FiniteSets, TLC

VARIABLES
    auth,        \* auth.json on disk
    settings,    \* settings.json on disk
    settings0,   \* settings.json as it was before the first operation
    lastStored,  \* key -> last value a store_* call wrote ("" when none)
    called,      \* the getter / store operation last called ("" when none)
    ret,         \* its outcome: [exc |-> exception name or "none", val |-> value]
    pc,          \* where the running script is ("idle" when none runs)
    \* model_execute.py
    deployment_id,  \* the deployment id read from settings.json ("" before)
    job_id,         \* the id of the job created ("" before)
    elapsed_time,   \* seconds waited by the polling loop
    jobs,           \* the service's jobs, in creation order: [deployment, id]
    polls,          \* what the status queries were: their number, the job ids
                    \* asked about, the last answer in the loop, the answer after it
    results,        \* what ran after the loop: [waits, processed, details, written, printed]
    \* utils.publish_and_deploy_model
    delete_previous,     \* its argument
    published_model_id,  \* what publish returned ("" before)
    service,             \* the cloud service: the [models, deployments] it holds
                         \* and the deployments it [deleted] in this run
    events,              \* the calls made so far, in order: [op, id, from, exc]
    \* model.py
    dir,           \* the names <<stem, extension>> of the files the run finds in '.'
    tables,        \* what ProductInfo.csv and Availability.csv hold
    input_files,   \* the datasets read so far (their names)
    model,         \* the docplex model built: its data, and whether it is built
    solution,      \* the solver's answer: [status, qty, slack, kpis]
    output_files,  \* the keys of the parsed outputs, in order
    steps          \* the steps of the run so far: <<step, file name>>

fileVars == <<auth, settings>>
callVars == <<settings0, lastStored, called, ret>>
execVars == <<deployment_id, job_id, elapsed_time, jobs, polls, results>>
deployVars == <<delete_previous, published_model_id, service, events>>
vars == <<auth, settings, settings0, lastStored, called, ret, pc,
          deployment_id, job_id, elapsed_time, jobs, polls, results,
          delete_previous, published_model_id, service, events,
          dir, tables, input_files, model, solution, output_files, steps>>
modelVars == <<dir, tables, input_files, model, solution, output_files, steps>>

----------------------------------------------------------------------------
(* Bounds of the model *)

\* longest list of "key": value members in a JSON object on disk
MaxPairs == 3

\* values a JSON member can hold (identifiers, keys: all strings)
Vals == {"v1", "v2"}

AuthKeys == {"api_key", "other"}
SettingsKeys == {"space_uid", "project_id", "publishing_id", "deployment_id"}

----------------------------------------------------------------------------
(* Files and JSON.  A file is missing, holds text that is not JSON, holds  *)
(* a JSON array, or holds a JSON object: the list of its members as        *)
(* written, in order, where a key may be repeated.                         *)

NoPairs == <<>>
MissingFile == [kind |-> "missing", pairs |-> NoPairs]
InvalidFile == [kind |-> "invalid", pairs |-> NoPairs]
ArrayFile == [kind |-> "array", pairs |-> NoPairs]
ObjectFile(ps) == [kind |-> "object", pairs |-> ps]

SeqsUpTo(S, n) == UNION {[1..k -> S] : k \in 0..n}

Files(keys) ==
    {MissingFile, InvalidFile, ArrayFile}
        \cup {ObjectFile(ps) : ps \in SeqsUpTo(keys \X Vals, MaxPairs)}

(* A Python dict is modelled as the list of its items in insertion order,  *)
(* every key once.                                                         *)
DictHas(d, k) == \E i \in 1..Len(d) : d[i][1] = k
DictGet(d, k) == d[CHOOSE i \in 1..Len(d) : d[i][1] = k][2]

\* d[k] = v : an existing key keeps its place, a new key goes last
DictSet(d, k, v) ==
    IF DictHas(d, k)
    THEN [i \in 1..Len(d) |-> IF d[i][1] = k THEN <<k, v>> ELSE d[i]]
    ELSE Append(d, <<k, v>>)

\* json.load of an object: members are inserted left to right
RECURSIVE json_load_object(_)
json_load_object(ps) ==
    IF ps = <<>> THEN <<>>
    ELSE LET n == Len(ps)
         IN DictSet(json_load_object(SubSeq(ps, 1, n - 1)), ps[n][1], ps[n][2])

\* json.dump of a dict: one member per item, in the dict's order
json_dump(d) == ObjectFile(d)

Ok(v) == [exc |-> "none", val |-> v]
Raise(e) == [exc |-> e, val |-> [t |-> "none", d |-> NoPairs]]
PyNone == [t |-> "none", d |-> NoPairs]
PyList == [t |-> "list", d |-> NoPairs]
PyDict(d) == [t |-> "dict", d |-> d]

\* utils.load_from_disk, for a path with extension ext
load_from_disk(ext, file) ==
    IF ext = ".pkl" THEN
        \* none of the files modelled here is a pickle
        IF file.kind = "missing" THEN Raise("FileNotFoundError")
        ELSE Raise("UnpicklingError")
    ELSE IF ext = ".json" THEN
        CASE file.kind = "missing" -> Raise("FileNotFoundError")
          [] file.kind = "invalid" -> Raise("JSONDecodeError")
          [] file.kind = "array" -> Ok(PyList)
          [] file.kind = "object" -> Ok(PyDict(json_load_object(file.pairs)))
    ELSE Ok(PyNone)

\* obj[key] for a string key
Subscript(obj, k) ==
    IF obj.t = "dict"
    THEN IF DictHas(obj.d, k) THEN [exc |-> "none", val |-> DictGet(obj.d, k)]
         ELSE [exc |-> "KeyError", val |-> ""]
    ELSE [exc |-> "TypeError", val |-> ""]

\* load_from_disk(path)[key]
LoadKey(ext, file, k) ==
    LET r == load_from_disk(ext, file)
    IN IF r.exc # "none" THEN [exc |-> r.exc, val |-> ""]
       ELSE Subscript(r.val, k)

\* the try/except shared by get_api_key, get_project_id and get_space_uid
GetterOutcome(r) ==
    CASE r.exc = "none" -> r
      [] r.exc = "FileNotFoundError" -> [exc |-> "FileNotFoundError", val |-> ""]
      [] r.exc \in {"JSONDecodeError", "KeyError"} -> [exc |-> "KeyError", val |-> ""]
      [] OTHER -> r

get_api_key(authFile) == GetterOutcome(LoadKey(".json", authFile, "api_key"))
get_project_id(settingsFile) == GetterOutcome(LoadKey(".json", settingsFile, "project_id"))
get_space_uid(settingsFile) == GetterOutcome(LoadKey(".json", settingsFile, "space_uid"))

----------------------------------------------------------------------------
(* The getters, called on whatever is on disk *)

NoneStored == [k \in SettingsKeys |-> ""]

NoPolls == [n |-> 0, ids |-> {}, inLoop |-> "", afterLoop |-> ""]
NoResults == [waits |-> 0, processed |-> FALSE, details |-> {}, written |-> FALSE,
              printed |-> FALSE]
ExecIdle ==
    /\ deployment_id = ""
    /\ job_id = ""
    /\ elapsed_time = 0
    /\ jobs = <<>>
    /\ polls = NoPolls
    /\ results = NoResults

\* the products of ProductInfo.csv (its ResourceName column)
Products == {"CAR1", "CAR2"}

Zero == [m \in Products |-> 0]
NoTables == [req |-> Zero, asm |-> Zero, paint |-> Zero, profit |-> Zero,
             Assembly |-> 0, Painting |-> 0]
NoModel == [built |-> FALSE, data |-> NoTables]
NoSolution == [status |-> "none", qty |-> Zero, slack |-> Zero,
               kpis |-> [profit |-> 0, unfulfilled |-> 0]]
ModelIdle ==
    /\ dir = {}
    /\ tables = NoTables
    /\ input_files = {}
    /\ model = NoModel
    /\ solution = NoSolution
    /\ output_files = <<>>
    /\ steps = <<>>

DeployIdle ==
    /\ delete_previous = FALSE
    /\ published_model_id = ""
    /\ service = [models |-> {}, deployments |-> {}, deleted |-> {}]
    /\ events = <<>>

InitGetters ==
    /\ auth \in Files(AuthKeys)
    /\ settings \in Files({"space_uid", "project_id"})
    /\ settings0 = settings
    /\ lastStored = NoneStored
    /\ called = ""
    /\ ret = [exc |-> "none", val |-> ""]
    /\ pc = "idle"
    /\ ExecIdle
    /\ DeployIdle
    /\ ModelIdle

CallGetApiKey ==
    /\ called' = "get_api_key"
    /\ ret' = get_api_key(auth)
    /\ UNCHANGED <<auth, settings, settings0, lastStored, pc, execVars, deployVars, modelVars>>

CallGetProjectId ==
    /\ called' = "get_project_id"
    /\ ret' = get_project_id(settings)
    /\ UNCHANGED <<auth, settings, settings0, lastStored, pc, execVars, deployVars, modelVars>>

CallGetSpaceUid ==
    /\ called' = "get_space_uid"
    /\ ret' = get_space_uid(settings)
    /\ UNCHANGED <<auth, settings, settings0, lastStored, pc, execVars, deployVars, modelVars>>

NextGetters == CallGetApiKey \/ CallGetProjectId \/ CallGetSpaceUid

SpecGetters == InitGetters /\ [][NextGetters]_vars

(* What a file holds under a key, read off the text itself: the value of   *)
(* the last member with that key of a JSON object, Absent otherwise.       *)
Absent == "<absent>"
HasMember(file, k) ==
    file.kind = "object" /\ \E i \in 1..Len(file.pairs) : file.pairs[i][1] = k
LastMember(file, k) ==
    LET I == {i \in 1..Len(file.pairs) : file.pairs[i][1] = k}
    IN file.pairs[CHOOSE i \in I : \A j \in I : j <= i][2]
Member(file, k) == IF HasMember(file, k) THEN LastMember(file, k) ELSE Absent

GetterFile == IF called = "get_api_key" THEN auth ELSE settings
GetterKey ==
    CASE called = "get_api_key" -> "api_key"
      [] called = "get_project_id" -> "project_id"
      [] OTHER -> "space_uid"
IsGetter == called \in {"get_api_key", "get_project_id", "get_space_uid"}

\* C6: a getter returns the value stored under its key when the file exists,
\* is valid JSON and has the key; it raises FileNotFoundError when the file is
\* missing and KeyError when the file is not valid JSON or lacks the key; it
\* never returns anything but the stored key.
C6_GetterReturnsStoredKeyOrRaises ==
    IsGetter =>
        /\ HasMember(GetterFile, GetterKey)
              => ret = [exc |-> "none", val |-> LastMember(GetterFile, GetterKey)]
        /\ GetterFile.kind = "missing" => ret.exc = "FileNotFoundError"
        /\ (GetterFile.kind # "missing" /\ ~HasMember(GetterFile, GetterKey))
              => ret.exc = "KeyError"
        /\ ret.exc = "none"
              => HasMember(GetterFile, GetterKey)
                 /\ ret.val = LastMember(GetterFile, GetterKey)

----------------------------------------------------------------------------
(* Storing the ids in settings.json *)

\* utils.write_to_disk, for a path with extension ext
write_to_disk(obj, ext, file) ==
    IF ext = ".json" THEN [exc |-> "none", file |-> json_dump(obj.d)]
    ELSE [exc |-> "NotImplementedError", file |-> file]

\* a store that forgets what settings.json held
StoreKeyFresh(file, k, v) ==
    LET r == load_from_disk(".json", file)
    IN IF r.exc # "none" THEN [exc |-> r.exc, file |-> file]
       ELSE write_to_disk(PyDict(<<<<k, v>>>>), ".json", file)

\* get_settings(); settings[k] = v; write_to_disk(settings, settings_path)
StoreKey(file, k, v) ==
    LET r == load_from_disk(".json", file)
    IN IF r.exc # "none" THEN [exc |-> r.exc, file |-> file]
       ELSE IF r.val.t # "dict" THEN [exc |-> "TypeError", file |-> file]
       ELSE write_to_disk(PyDict(DictSet(r.val.d, k, v)), ".json", file)

store_publishing_id(file, id) == StoreKey(file, "publishing_id", id)
store_deployment_id(file, id) == StoreKey(file, "deployment_id", id)

InitStore ==
    /\ auth = MissingFile
    /\ settings \in Files(SettingsKeys)
    /\ settings0 = settings
    /\ lastStored = NoneStored
    /\ called = ""
    /\ ret = [exc |-> "none", val |-> ""]
    /\ pc = "idle"
    /\ ExecIdle
    /\ DeployIdle
    /\ ModelIdle

CallStore(name, k, r, v) ==
    /\ called' = name
    /\ ret' = [exc |-> r.exc, val |-> ""]
    /\ settings' = r.file
    /\ lastStored' = IF r.exc = "none" THEN [lastStored EXCEPT ![k] = v] ELSE lastStored
    /\ UNCHANGED <<auth, settings0, pc, execVars, deployVars, modelVars>>

CallStorePublishingId ==
    \E v \in Vals :
        CallStore("store_publishing_id", "publishing_id", store_publishing_id(settings, v), v)

CallStoreDeploymentId ==
    \E v \in Vals :
        CallStore("store_deployment_id", "deployment_id", store_deployment_id(settings, v), v)

NextStore == CallStorePublishingId \/ CallStoreDeploymentId

SpecStore == InitStore /\ [][NextStore]_vars

\* C10: after any sequence of store_publishing_id / store_deployment_id calls,
\* a key of settings.json that no call wrote holds what it held before, and a
\* written key holds the last value stored; a call that raises leaves the file
\* as it was.
C10_StoreChangesOnlyItsKey ==
    /\ \A k \in SettingsKeys :
          Member(settings, k) =
              IF lastStored[k] = "" THEN Member(settings0, k) ELSE lastStored[k]
    /\ \A k \in SettingsKeys \ {"publishing_id", "deployment_id"} : lastStored[k] = ""
    /\ settings.kind = settings0.kind

C10_Witness ==
    /\ called = "store_deployment_id"
    /\ lastStored["publishing_id"] = "v1"
    /\ lastStored["deployment_id"] = "v2"
    /\ Member(settings0, "deployment_id") = "v1"
    /\ Member(settings, "space_uid") = "v2"

----------------------------------------------------------------------------
(* model_execute.py: create one job and poll it *)

\* wait_longer adds this many seconds per wait
PollStep == 10
\* the loop gives up once this many seconds were waited
PollLimit == 300

\* ids the service can give a job
JobIds == {"j1", "j2"}
\* the 'state' of a status answer; "none" is an answer without a state
JobStates == {"queued", "running", "completed", "failed", "none"}

\* a wait that counts a second where it slept ten
wait_longer_by_one(waited_for_n_seconds) == waited_for_n_seconds + 1

wait_longer(waited_for_n_seconds) == waited_for_n_seconds + PollStep

\* a lookup of the wrong settings key
get_space_uid_instead(settingsFile) == LoadKey(".json", settingsFile, "space_uid")

\* model_execute.get_deployment_id
get_deployment_id(settingsFile) == LoadKey(".json", settingsFile, "deployment_id")

\* the loop's condition, given the state just answered
LoopContinues(state, elapsed) == state # "completed" /\ elapsed < PollLimit

\* a test that takes every job that has not failed for a completed one
JobNotFailed(state) == state # "failed"

\* the test after the loop
JobCompleted(state) == state = "completed"

InitExecute ==
    /\ auth \in {MissingFile, ObjectFile(<<<<"api_key", "v1">>>>)}
    /\ settings \in Files({"space_uid", "deployment_id"})
    /\ settings0 = settings
    /\ lastStored = NoneStored
    /\ called = ""
    /\ ret = [exc |-> "none", val |-> ""]
    /\ pc = "credentials"
    /\ ExecIdle
    /\ DeployIdle
    /\ ModelIdle

\* get_api_key, get_wml_client: get_space_uid, APIClient, set.default_space
Credentials ==
    /\ pc = "credentials"
    /\ IF get_api_key(auth).exc # "none" \/ get_space_uid(settings).exc # "none"
       THEN pc' = "raised"
       ELSE \E accepted \in BOOLEAN :
               pc' = IF accepted THEN "get_deployment_id" ELSE "raised"
    /\ UNCHANGED <<fileVars, callVars, execVars, deployVars, modelVars>>

GetDeploymentId ==
    /\ pc = "get_deployment_id"
    /\ LET r == get_deployment_id(settings)
       IN IF r.exc # "none"
          THEN pc' = "raised" /\ UNCHANGED deployment_id
          ELSE pc' = "create_job" /\ deployment_id' = r.val
    /\ UNCHANGED <<fileVars, callVars, job_id, elapsed_time, jobs, polls, results, deployVars, modelVars>>

\* define_job_payload, create_job, get_job_uid
CreateJob ==
    /\ pc = "create_job"
    /\ \/ /\ pc' = "raised"
          /\ UNCHANGED <<job_id, jobs>>
       \/ \E j \in JobIds \ {jobs[i].id : i \in 1..Len(jobs)} :
             /\ jobs' = Append(jobs, [deployment |-> deployment_id, id |-> j])
             /\ job_id' = j
             /\ pc' = "loop"
    /\ UNCHANGED <<fileVars, callVars, deployment_id, elapsed_time, polls, results, deployVars, modelVars>>

\* one evaluation of the while condition: a status query, then the test
PollLoop ==
    /\ pc = "loop"
    /\ \E s \in JobStates :
          /\ polls' = [polls EXCEPT !.n = @ + 1, !.ids = @ \cup {job_id}, !.inLoop = s]
          /\ \/ pc' = IF LoopContinues(s, elapsed_time) THEN "wait" ELSE "after_loop"
             \/ pc' = "raised"
    /\ UNCHANGED <<fileVars, callVars, deployment_id, job_id, elapsed_time, jobs, results, deployVars, modelVars>>

\* the loop's body
Wait ==
    /\ pc = "wait"
    /\ elapsed_time' = wait_longer(elapsed_time)
    /\ results' = [results EXCEPT !.waits = @ + 1]
    /\ pc' = "loop"
    /\ UNCHANGED <<fileVars, callVars, deployment_id, job_id, jobs, polls, deployVars, modelVars>>

\* the status query after the loop, and the branch on it
AfterLoop ==
    /\ pc = "after_loop"
    /\ \E s \in JobStates :
          /\ polls' = [polls EXCEPT !.n = @ + 1, !.ids = @ \cup {job_id}, !.afterLoop = s]
          /\ IF JobCompleted(s)
             THEN /\ results' = [results EXCEPT !.processed = TRUE]
                  /\ pc' = "process_results"
             ELSE /\ results' = [results EXCEPT !.printed = TRUE]
                  /\ pc' = "done"
    /\ UNCHANGED <<fileVars, callVars, deployment_id, job_id, elapsed_time, jobs, deployVars, modelVars>>

\* process_results: the job details, then solution.csv unless a lookup raises
ProcessResults ==
    /\ pc = "process_results"
    /\ \E found \in BOOLEAN :
          /\ results' = [results EXCEPT !.details = @ \cup {job_id}, !.written = found]
          /\ pc' = IF found THEN "done" ELSE "raised"
    /\ UNCHANGED <<fileVars, callVars, deployment_id, job_id, elapsed_time, jobs, polls, deployVars, modelVars>>

NextExecute ==
    \/ Credentials
    \/ GetDeploymentId
    \/ CreateJob
    \/ PollLoop
    \/ Wait
    \/ AfterLoop
    \/ ProcessResults

SpecExecute == InitExecute /\ [][NextExecute]_vars

\* every call returns or raises: the script always takes its next step
FairSpecExecute == SpecExecute /\ WF_vars(NextExecute)

ExecuteEnded == pc \in {"done", "raised"}

C1_LoopBounds ==
    /\ elapsed_time % 10 = 0
    /\ 0 <= elapsed_time /\ elapsed_time <= 300
    /\ elapsed_time = 10 * results.waits
    /\ results.waits <= 30
    /\ ~(results.processed /\ results.printed)
    /\ pc \in {"process_results", "done"} => (results.processed \/ results.printed)

\* C1: whatever the status answers are, the polling loop ends: elapsed_time is
\* a multiple of 10 in 0..300 (10 per wait, at most 30 waits), and after the
\* loop exactly one of process_results and the timeout message happens.
C1_PollingLoopTerminates == []C1_LoopBounds /\ <>ExecuteEnded

C1_Witness ==
    /\ pc = "done"
    /\ results.waits = 30
    /\ elapsed_time = 300
    /\ polls.inLoop = "running"
    /\ results.printed

\* C2: process_results runs (job details fetched, solution.csv written) if and
\* only if the status query after the loop answered 'completed'; on any other
\* answer nothing is fetched or written and the timeout message is printed.
C2_ProcessedIffCompletedAfterLoop ==
    /\ results.processed <=> polls.afterLoop = "completed"
    /\ (results.details # {} \/ results.written) => results.processed
    /\ polls.afterLoop \notin {"", "completed"}
          => results.details = {} /\ ~results.written /\ results.printed
    /\ results.printed => polls.afterLoop \notin {"", "completed"}

C2_Witness ==
    /\ pc = "done"
    /\ polls.inLoop = "running"
    /\ polls.afterLoop = "completed"
    /\ results.written
    /\ results.details = {job_id}

\* C3: one run creates at most one job, exactly one once it polls, against the
\* deployment_id held by settings.json, before the first status query; every
\* status query and the job-details request name the id given to that job.
C3_OneJobPolledById ==
    /\ Len(jobs) <= 1
    /\ (polls.n > 0 \/ results.details # {} \/ pc = "done") => Len(jobs) = 1
    /\ Len(jobs) = 1 =>
          /\ jobs[1].deployment = Member(settings, "deployment_id")
          /\ jobs[1].deployment # Absent
          /\ polls.ids \subseteq {jobs[1].id}
          /\ results.details \subseteq {jobs[1].id}

C3_Witness ==
    /\ pc = "done"
    /\ results.written
    /\ polls.n = 3
    /\ polls.ids = {"j2"}
    /\ jobs = <<[deployment |-> "v2", id |-> "j2"]>>
    /\ settings = ObjectFile(<<<<"deployment_id", "v2">>, <<"space_uid", "v1">>>>)

----------------------------------------------------------------------------
(* utils.publish_and_deploy_model, as model_deploy.py calls it *)

\* the ids the service gives the model and the deployment this run creates
NewModelIds == {"m1"}
NewDeploymentIds == {"d1"}

\* utils.get_deployment_id and utils.get_publish_id: get_settings()[key]
utils_get_deployment_id(settingsFile) == LoadKey(".json", settingsFile, "deployment_id")
get_publish_id(settingsFile) == LoadKey(".json", settingsFile, "publishing_id")

\* a handler that catches the missing key only
CaughtIfKeyError(exc) == exc = "KeyError"

\* "except Exception" in delete_previous_deployment / delete_previous_publication
Caught(exc) == TRUE

\* an order that deploys before it publishes
StepsDeployFirst(delete_prev) ==
    <<"client">>
        \o (IF delete_prev THEN <<"delete_deployment", "delete_publication">> ELSE <<>>)
        \o <<"deploy", "store_deployment_id", "publish", "store_publishing_id", "done">>

\* the statements of publish_and_deploy_model, in program order
Steps(delete_prev) ==
    <<"client">>
        \o (IF delete_prev THEN <<"delete_deployment", "delete_publication">> ELSE <<>>)
        \o <<"publish", "store_publishing_id", "deploy", "store_deployment_id", "done">>

StepAfter(step) ==
    LET order == Steps(delete_previous)
        i == CHOOSE j \in 1..Len(order) : order[j] = step
    IN order[i + 1]

Event(op, id, from, exc) == [op |-> op, id |-> id, from |-> from, exc |-> exc]

HasDeployment(svc, id) == \E d \in svc.deployments : d.id = id

InitDeploy ==
    /\ auth = ObjectFile(<<<<"api_key", "v1">>>>)
    /\ settings \in Files({"space_uid", "publishing_id", "deployment_id"})
    /\ settings0 = settings
    /\ lastStored = NoneStored
    /\ called = ""
    /\ ret = [exc |-> "none", val |-> ""]
    /\ pc = "client"
    /\ ExecIdle
    /\ delete_previous \in BOOLEAN
    /\ published_model_id = ""
    /\ \E ms \in SUBSET Vals, ds \in SUBSET Vals :
          service = [models |-> ms, deployments |-> {[id |-> d, model |-> d] : d \in ds},
                     deleted |-> {}]
    /\ events = <<>>
    /\ ModelIdle

\* get_wml_client: get_space_uid, APIClient, set.default_space
GetClient ==
    /\ pc = "client"
    /\ IF get_space_uid(settings).exc # "none"
       THEN pc' = "raised"
       ELSE \E accepted \in BOOLEAN :
               pc' = IF accepted THEN StepAfter("client") ELSE "raised"
    /\ UNCHANGED <<fileVars, callVars, execVars, deployVars, modelVars>>

\* the body of a delete_previous_* function: look the id up, ask the service
\* to delete it (found: it holds it; svcAfter: the service without it); what
\* is raised is caught or ends the run
DeleteStep(step, lookup, found, svcAfter) ==
    /\ pc = step
    /\ \E exc \in {"none", "ApiRequestFailure"} :
          LET e == IF lookup.exc # "none" THEN lookup.exc
                   ELSE IF found THEN exc
                   ELSE "ApiRequestFailure"
          IN /\ events' = Append(events, Event(step, lookup.val, "", e))
             /\ service' = IF e = "none" THEN svcAfter ELSE service
             /\ pc' = IF e = "none" \/ Caught(e) THEN StepAfter(step) ELSE "raised"
    /\ UNCHANGED <<fileVars, callVars, execVars, delete_previous, published_model_id, modelVars>>

WithoutDeployment(id) ==
    [service EXCEPT !.deployments = {d \in @ : d.id # id},
                    !.deleted = @ \cup {d \in service.deployments : d.id = id}]
WithoutModel(id) == [service EXCEPT !.models = @ \ {id}]

DeletePreviousDeployment ==
    LET previous_deployed_model_id == utils_get_deployment_id(settings)
    IN DeleteStep("delete_deployment", previous_deployed_model_id,
                  HasDeployment(service, previous_deployed_model_id.val),
                  WithoutDeployment(previous_deployed_model_id.val))

DeletePreviousPublication ==
    LET previous_published_model_id == get_publish_id(settings)
    IN DeleteStep("delete_publication", previous_published_model_id,
                  previous_published_model_id.val \in service.models,
                  WithoutModel(previous_published_model_id.val))

\* publish: zip_model, store_model, get_model_id
Publish ==
    /\ pc = "publish"
    /\ \/ /\ events' = Append(events, Event("publish", "", "", "ApiRequestFailure"))
          /\ pc' = "raised"
          /\ UNCHANGED <<published_model_id, service>>
       \/ \E m \in NewModelIds \ service.models :
             /\ service' = [service EXCEPT !.models = @ \cup {m}]
             /\ published_model_id' = m
             /\ events' = Append(events, Event("publish", m, "", "none"))
             /\ pc' = StepAfter("publish")
    /\ UNCHANGED <<fileVars, callVars, execVars, delete_previous, modelVars>>

StorePublishingId ==
    /\ pc = "store_publishing_id"
    /\ LET r == store_publishing_id(settings, published_model_id)
       IN /\ settings' = r.file
          /\ events' = Append(events, Event("store_publishing_id", published_model_id, "", r.exc))
          /\ pc' = IF r.exc = "none" THEN StepAfter("store_publishing_id") ELSE "raised"
    /\ UNCHANGED <<auth, callVars, execVars, delete_previous, published_model_id, service, modelVars>>

\* deploy: deployments.create(published_model_id, ...), get_id
Deploy ==
    /\ pc = "deploy"
    /\ \/ /\ events' = Append(events, Event("deploy", "", published_model_id, "ApiRequestFailure"))
          /\ pc' = "raised"
          /\ UNCHANGED <<deployment_id, service>>
       \/ /\ published_model_id \in service.models
          /\ \E d \in NewDeploymentIds :
                /\ ~HasDeployment(service, d)
                /\ service' = [service EXCEPT !.deployments =
                                   @ \cup {[id |-> d, model |-> published_model_id]}]
                /\ deployment_id' = d
                /\ events' = Append(events, Event("deploy", d, published_model_id, "none"))
                /\ pc' = StepAfter("deploy")
    /\ UNCHANGED <<fileVars, callVars, job_id, elapsed_time, jobs, polls, results,
                   delete_previous, published_model_id, modelVars>>

StoreDeploymentId ==
    /\ pc = "store_deployment_id"
    /\ LET r == store_deployment_id(settings, deployment_id)
       IN /\ settings' = r.file
          /\ events' = Append(events, Event("store_deployment_id", deployment_id, "", r.exc))
          /\ pc' = IF r.exc = "none" THEN StepAfter("store_deployment_id") ELSE "raised"
    /\ UNCHANGED <<auth, callVars, execVars, delete_previous, published_model_id, service, modelVars>>

NextDeploy ==
    \/ GetClient
    \/ DeletePreviousDeployment
    \/ DeletePreviousPublication
    \/ Publish
    \/ StorePublishingId
    \/ Deploy
    \/ StoreDeploymentId

SpecDeploy == InitDeploy /\ [][NextDeploy]_vars

\* the order the steps are to be taken in
ClaimedOrder ==
    (IF delete_previous THEN <<"delete_deployment", "delete_publication">> ELSE <<>>)
        \o <<"publish", "store_publishing_id", "deploy", "store_deployment_id">>

EventOps == [i \in 1..Len(events) |-> events[i].op]

\* C4: the calls of publish_and_deploy_model come in this order: with
\* delete_previous, the deletion of the stored deployment, then of the stored
\* publication; publish; the store of the new publishing id; the deployment of
\* exactly the model just published; the store of the new deployment id, last.
\* No deployment is asked for before publish has returned an id.
C4_PublishThenDeployInOrder ==
    /\ Len(events) <= Len(ClaimedOrder)
    /\ EventOps = SubSeq(ClaimedOrder, 1, Len(events))
    /\ \A i \in 1..Len(events) :
          /\ events[i].op = "deploy" =>
                \E j \in 1..(i - 1) :
                    /\ events[j].op = "publish"
                    /\ events[j].exc = "none"
                    /\ events[j].id \in NewModelIds
                    /\ events[i].from = events[j].id
          /\ events[i].op = "store_publishing_id" =>
                i > 1 /\ events[i - 1].op = "publish" /\ events[i].id = events[i - 1].id
          /\ events[i].op = "store_deployment_id" =>
                i > 1 /\ events[i - 1].op = "deploy" /\ events[i].id = events[i - 1].id
    /\ pc = "done" =>
          /\ EventOps = ClaimedOrder
          /\ Member(settings, "publishing_id") = published_model_id
          /\ Member(settings, "deployment_id") = deployment_id
          /\ [id |-> deployment_id, model |-> published_model_id] \in service.deployments

C4_Witness ==
    /\ pc = "done"
    /\ delete_previous
    /\ Len(events) = 6
    /\ \A i \in 1..6 : events[i].exc = "none"
    /\ events[1].id = "v1"
    /\ events[2].id = "v2"
    /\ Member(settings, "deployment_id") = "d1"

IsDelete(op) == op \in {"delete_deployment", "delete_publication"}

\* C5: a failed deletion (no stored id, or the service's delete raising) never
\* ends publish_and_deploy_model: the run never stops on a deletion, the
\* publication's deletion is attempted whatever came of the deployment's, and
\* publish is attempted whatever came of both.
C5_DeletionFailuresNeverAbort ==
    /\ (pc = "raised" /\ events # <<>>) => ~IsDelete(events[Len(events)].op)
    /\ (events # <<>> /\ events[1].op = "delete_deployment" /\ pc # "delete_publication")
          => Len(events) >= 2 /\ events[2].op = "delete_publication"
    /\ (Len(events) >= 2 /\ events[2].op = "delete_publication" /\ pc # "publish")
          => Len(events) >= 3 /\ events[3].op = "publish"
    /\ (Len(events) >= 4 /\ events[3].op = "publish" /\ events[4].exc = "none"
            /\ pc \notin {"deploy"})
          => Len(events) >= 5 /\ events[5].op = "deploy"

C5_Witness ==
    /\ pc = "done"
    /\ Len(events) = 6
    /\ events[1].exc = "KeyError"
    /\ events[2].exc = "ApiRequestFailure"
    /\ events[5].exc = "none"

----------------------------------------------------------------------------
(* model.py: read the .csv inputs, build the LP, solve it, write the outputs *)

\* largest RequiredThisWeek and largest Capacity of the inputs
MaxRequired == 1
MaxCapacity == 1

\* AssemblyHours and PaintingHours per unit, and ProfitMargin per unit.  With
\* hours of 0 or 1 and whole capacities the LP, when it has an optimum at all,
\* has one in whole numbers, and so has its dual: the grids below hold them.
Hours == {0, 1}
Profits == {0, 1}

Qtys == 0..MaxCapacity
Slacks == 0..(MaxRequired + 1)
Duals == {0, 1}

Tables ==
    [req : [Products -> 0..MaxRequired], asm : [Products -> Hours],
     paint : [Products -> Hours], profit : [Products -> Profits],
     Assembly : 0..MaxCapacity, Painting : 0..MaxCapacity]

ProductInfoCsv == <<"ProductInfo", ".csv">>
AvailabilityCsv == <<"Availability", ".csv">>
AllFiles == {ProductInfoCsv, AvailabilityCsv, <<"notes", ".txt">>}

RECURSIVE SumOver(_, _)
SumOver(S, f) ==
    IF S = {} THEN 0
    ELSE LET m == CHOOSE x \in S : TRUE IN f[m] + SumOver(S \ {m}, f)

Dot(f, g) == SumOver(Products, [m \in Products |-> f[m] * g[m]])

\* os.path.splitext(file_name)[1] == '.csv'
IsCsv(file_name) == file_name[2] = ".csv"
csv_files == {f \in dir : IsCsv(f)}

\* a demand constraint without the slack
DemandMetNoSlack(d, qty, slack, m) == qty[m] >= d.req[m]

\* constraint #1, for product m
DemandMet(d, qty, slack, m) == qty[m] + slack[m] >= d.req[m]

\* constraints #3 and #4
AssemblyLimit(d, qty) == Dot(d.asm, qty) <= d.Assembly
PaintingLimit(d, qty) == Dot(d.paint, qty) <= d.Painting

\* the constraints of create_base_model; variables are >= 0 by their domain
Feasible(d, qty, slack) ==
    /\ \A m \in Products : DemandMet(d, qty, slack, m)
    /\ AssemblyLimit(d, qty)
    /\ PaintingLimit(d, qty)

projected_profit(d, qty) == Dot(d.profit, qty)
unfulfilled_demand(slack) == SumOver(Products, slack)

(* The solver.  A point is optimal when a point of the dual LP             *)
(*     minimise  Assembly * y1 + Painting * y2                             *)
(*     with      asm[m] * y1 + paint[m] * y2 >= profit[m],  y1, y2 >= 0    *)
(* has the same objective value; no such point exists when the profit is   *)
(* unbounded.  The slacks are in no objective term: they only have to      *)
(* satisfy the constraints.                                                *)
DualFeasible(d, y1, y2) ==
    \A m \in Products : d.asm[m] * y1 + d.paint[m] * y2 >= d.profit[m]
Optimal(d, qty, slack) ==
    /\ Feasible(d, qty, slack)
    /\ \E y1 \in Duals, y2 \in Duals :
          /\ DualFeasible(d, y1, y2)
          /\ d.Assembly * y1 + d.Painting * y2 = projected_profit(d, qty)
Solutions(d) ==
    {x \in [qty : [Products -> Qtys], slack : [Products -> Slacks]] :
        Optimal(d, x.qty, x.slack)}

\* parse_solution with the kpis left out
outputs_solution_only == <<"solution">>

\* the keys of the dict parse_solution returns
outputs_keys == <<"solution", "kpis">>

InitModel ==
    /\ auth = MissingFile
    /\ settings = MissingFile
    /\ settings0 = settings
    /\ lastStored = NoneStored
    /\ called = ""
    /\ ret = [exc |-> "none", val |-> ""]
    /\ pc = "get_all_inputs"
    /\ ExecIdle
    /\ DeployIdle
    /\ dir \in SUBSET AllFiles
    \* every table is tried in the full directory, the empty one elsewhere
    /\ tables \in IF dir = AllFiles THEN Tables ELSE {NoTables}
    /\ input_files = {}
    /\ model = NoModel
    /\ solution = NoSolution
    /\ output_files = <<>>
    /\ steps = <<>>

\* get_all_inputs: one turn of its loop reads one .csv file of the directory
ReadCsv ==
    /\ pc = "get_all_inputs"
    /\ \E f \in csv_files :
          /\ f[1] \notin input_files
          /\ input_files' = input_files \cup {f[1]}
          /\ steps' = Append(steps, <<"read", f>>)
    /\ UNCHANGED <<fileVars, callVars, pc, execVars, deployVars,
                   dir, tables, model, solution, output_files>>

\* create_base_model, once get_all_inputs has returned
CreateBaseModel ==
    /\ pc = "get_all_inputs"
    /\ \A f \in csv_files : f[1] \in input_files
    /\ steps' = Append(steps, <<"build", <<"", "">>>>)
    /\ IF {"ProductInfo", "Availability"} \subseteq input_files
       THEN model' = [built |-> TRUE, data |-> tables] /\ pc' = "solve_model"
       ELSE pc' = "raised" /\ UNCHANGED model
    /\ UNCHANGED <<fileVars, callVars, execVars, deployVars,
                   dir, tables, input_files, solution, output_files>>

\* solve_model: model.solve() leaves a solution or none
SolveModel ==
    /\ pc = "solve_model"
    /\ steps' = Append(steps, <<"solve", <<"", "">>>>)
    /\ IF Solutions(model.data) = {}
       THEN solution' = [solution EXCEPT !.status = "no solution"]
       ELSE \E x \in Solutions(model.data) :
               solution' = [status |-> "optimal", qty |-> x.qty, slack |-> x.slack,
                            kpis |-> [profit |-> projected_profit(model.data, x.qty),
                                      unfulfilled |-> unfulfilled_demand(x.slack)]]
    /\ pc' = "parse_solution"
    /\ UNCHANGED <<fileVars, callVars, execVars, deployVars,
                   dir, tables, input_files, model, output_files>>

\* parse_solution: model.solution is None when the solve left no solution
ParseSolution ==
    /\ pc = "parse_solution"
    /\ steps' = Append(steps, <<"parse", <<"", "">>>>)
    /\ IF solution.status = "optimal"
       THEN output_files' = outputs_keys /\ pc' = "outputs_to_csv"
       ELSE pc' = "raised" /\ UNCHANGED output_files
    /\ UNCHANGED <<fileVars, callVars, execVars, deployVars,
                   dir, tables, input_files, model, solution>>

Writes == {i \in 1..Len(steps) : steps[i][1] = "write"}

\* outputs_to_csv: one turn of its loop writes '<name>.csv'
WriteCsv ==
    /\ pc = "outputs_to_csv"
    /\ LET k == Cardinality(Writes) + 1
       IN IF k <= Len(output_files)
          THEN /\ steps' = Append(steps, <<"write", <<output_files[k], ".csv">>>>)
               /\ pc' = pc
          ELSE /\ pc' = "done"
               /\ UNCHANGED steps
    /\ UNCHANGED <<fileVars, callVars, execVars, deployVars,
                   dir, tables, input_files, model, solution, output_files>>

NextModel ==
    \/ ReadCsv
    \/ CreateBaseModel
    \/ SolveModel
    \/ ParseSolution
    \/ WriteCsv

SpecModel == InitModel /\ [][NextModel]_vars

Max0(x) == IF x > 0 THEN x ELSE 0
Unmet(m) == Max0(model.data.req[m] - solution.qty[m])

\* C7: in every profit-maximising solution the slack of each product is its
\* unfulfilled demand, max(0, RequiredThisWeek - QtyToProduce), and the
\* 'Unfulfilled Demand' KPI is the sum of these over the products.
C7_SlackIsUnfulfilledDemand ==
    solution.status = "optimal" =>
        /\ \A m \in Products : solution.slack[m] = Unmet(m)
        /\ solution.kpis.unfulfilled = SumOver(Products, [m \in Products |-> Unmet(m)])

\* C8: whatever RequiredThisWeek is, with capacities, hours and requirements
\* >= 0 the constraints built by create_base_model can be satisfied; a solution
\* the solver returns satisfies them, and it returns none only when some
\* product earns a profit and uses no hours (the profit is unbounded).
C8_ConstraintsSatisfiable ==
    /\ model.built =>
          \E qty \in [Products -> Qtys], slack \in [Products -> Slacks] :
              Feasible(model.data, qty, slack)
    /\ solution.status = "optimal" => Feasible(model.data, solution.qty, solution.slack)
    /\ solution.status = "no solution" =>
          \E m \in Products :
              /\ model.data.profit[m] > 0
              /\ model.data.asm[m] = 0
              /\ model.data.paint[m] = 0

C8_Witness ==
    /\ pc = "done"
    /\ solution.status = "optimal"
    /\ \A m \in Products : model.data.req[m] = 1 /\ model.data.asm[m] = 1
    /\ model.data.Assembly = 1
    /\ model.data.Painting = 0
    /\ solution.kpis.unfulfilled = 2

StepRank(step) ==
    CASE step = "read" -> 1
      [] step = "build" -> 2
      [] step = "solve" -> 3
      [] step = "parse" -> 4
      [] step = "write" -> 5
StepsOf(kind) == {i \in 1..Len(steps) : steps[i][1] = kind}
FilesOf(kind) == {steps[i][2] : i \in StepsOf(kind)}

\* C9: a run of model.py reads every .csv input, builds the model, solves it,
\* parses the solution and writes the outputs, each once and in this order; it
\* writes one file '<key>.csv' per parsed output (solution.csv and kpis.csv)
\* and none before the solve has returned.
C9_RunStepsInOrder ==
    /\ \A i, j \in 1..Len(steps) : i < j => StepRank(steps[i][1]) <= StepRank(steps[j][1])
    /\ \A kind \in {"build", "solve", "parse"} : Cardinality(StepsOf(kind)) <= 1
    /\ \A kind \in {"read", "write"} : Cardinality(FilesOf(kind)) = Cardinality(StepsOf(kind))
    /\ FilesOf("read") \subseteq {f \in dir : f[2] = ".csv"}
    /\ StepsOf("build") # {} => FilesOf("read") = {f \in dir : f[2] = ".csv"}
    /\ StepsOf("solve") # {} => StepsOf("build") # {}
    /\ StepsOf("parse") # {} => StepsOf("solve") # {}
    /\ StepsOf("write") # {} => StepsOf("solve") # {} /\ StepsOf("parse") # {}
    /\ FilesOf("write") \subseteq {<<"solution", ".csv">>, <<"kpis", ".csv">>}
    /\ pc = "done" =>
          /\ StepsOf("parse") # {}
          /\ FilesOf("write") = {<<"solution", ".csv">>, <<"kpis", ".csv">>}
          /\ Cardinality(StepsOf("write")) = Len(output_files)

C9_Witness ==
    /\ pc = "done"
    /\ dir = AllFiles
    /\ Len(steps) = 7
    /\ steps[1] = <<"read", AvailabilityCsv>>
    /\ steps[2] = <<"read", ProductInfoCsv>>
    /\ steps[6] = <<"write", <<"solution", ".csv">>>>
    /\ steps[7] = <<"write", <<"kpis", ".csv">>>>

\* publish_and_deploy_model has stopped: it returned, or publish, deploy or a
\* store step raised
DeployStopped ==
    \/ pc = "done"
    \/ /\ pc = "raised"
       /\ events # <<>>
       /\ events[Len(events)].op \in
              {"publish", "store_publishing_id", "deploy", "store_deployment_id"}

\* the deployments the service held when the run began
DeploymentsBefore ==
    {d \in service.deployments \cup service.deleted : d.id \notin NewDeploymentIds}

\* settings.json named a deployment of its publication when the run began
ConsistentBefore ==
    \E d \in DeploymentsBefore :
        /\ d.id = Member(settings0, "deployment_id")
        /\ d.model = Member(settings0, "publishing_id")

\* C11: wherever publish_and_deploy_model stops (it returns, or publish,
\* deploy or a store step raises), the deployment_id in settings.json names a
\* deployment this run has not deleted, created from the model whose id is
\* the publishing_id in settings.json.
C11_StoredDeploymentIsLive ==
    (DeployStopped /\ ConsistentBefore) =>
        /\ \A d \in service.deleted : d.id # Member(settings, "deployment_id")
        /\ \E d \in service.deployments :
              /\ d.id = Member(settings, "deployment_id")
              /\ d.model = Member(settings, "publishing_id")

====
